---- MODULE Spec2Model ----
(***************************************************************************)
(* LSNMF (methods/factorization/lsnmf.py): the alternating driver          *)
(* Lsnmf.factorize, the stopping predicate Lsnmf._is_satisfied, the update *)
(* step Lsnmf.update, the projected-gradient solver Lsnmf._subproblem with *)
(* its line search, and the helpers Lsnmf.__extract and Lsnmf.__alleq.     *)
(*                                                                         *)
(* Numbers.  Matrices are sequences of rows of integers.  A norm is        *)
(* carried as its square (the square root is monotone on nonnegative       *)
(* numbers, so every comparison of norms is exact).  Scalars that the code *)
(* multiplies by 0.1, 0.001 or 0.99 are exact rationals [num, den].        *)
(* epsW and epsH are carried as the rational factor f of eps = f*init_grad.*)
(*                                                                         *)
(* update() calls self.subproblem; the model resolves the call to          *)
(* Lsnmf._subproblem, the only solver this file defines.                   *)
(***************************************************************************)
EXTENDS Integers, Sequences, FiniteSets, TLC

VARIABLES
    shape,          \* <<m, rank, n>>: V is m x n, W is m x rank, H is rank x n
    V,              \* self.V
    max_iter,       \* self.max_iter (0 is falsy, like None)
    n_run,          \* self.n_run
    test_conv,      \* self.test_conv
    fmt,            \* representation of every matrix of the run: "dense" or "sparse"
    min_residuals,  \* self.min_residuals, a rational; num = 0 is "not specified"
    run,            \* index of the trial, the _ of line 46
    W, H,           \* self.W, self.H
    gW, gH,         \* self.gW, self.gH
    init_grad,      \* self.init_grad (squared)
    epsW, epsH,     \* self.epsW, self.epsH as factors of init_grad
    cobj,           \* local cobj of factorize (squared)
    iter,           \* local iter of factorize
    n_iter,         \* self.n_iter
    final_obj,      \* self.final_obj (squared)
    pc,             \* position of the program
    err,            \* the exception that ended the program, "none" if none
    nUpdates,       \* history: update steps completed in the current trial
    sub,            \* frame of the running _subproblem call (locals and history)
    hlp             \* frame of the helper harness (SpecHelpers)

cfgVars == <<shape, V, max_iter, n_run, test_conv, fmt>>
drvVars == <<min_residuals, run, W, H, gW, gH, init_grad, epsW, epsH, cobj, iter,
             n_iter, final_obj, pc, err, nUpdates>>
vars == <<cfgVars, drvVars, sub, hlp>>

----------------------------------------------------------------------------
(* Bounds of the model *)

MaxEntry == 1       \* seeded W, H and the input V have entries in 0..MaxEntry
MaxCap == 2         \* max_iter ranges over 0..MaxCap
MaxG == 1           \* helper harness: gradient entries in -MaxG..MaxG
MaxOuter == MaxCap + 2   \* outer iterations explored when no cap stops the loop

(* Constants of the program *)

SubMaxIter == 1000  \* max_iter argument of both solver calls
LsTrials == 20      \* cap of the line search

Rat(n, d) == [num |-> n, den |-> d]
DefaultMinResiduals == Rat(1, 1000)
TolFloor == Rat(1, 1000)
Tighten == Rat(1, 10)
beta == Rat(1, 10)
alpha0 == Rat(1, 1)

----------------------------------------------------------------------------
(* Rationals *)

RatLess(a, b) == a.num * b.den < b.num * a.den
RatMax(a, b) == IF RatLess(a, b) THEN b ELSE a
RatMul(a, b) == Rat(a.num * b.num, a.den * b.den)
RatDiv(a, b) == Rat(a.num * b.den, a.den * b.num)
RatEq(a, b) == a.num * b.den = b.num * a.den

\* sqrt(x2) < f * sqrt(y2) for a rational f >= 0, on the squares.  The quotient
\* test keeps the products inside the integer range.
NormLess(x2, f, y2) ==
    LET r == f.num * f.num * y2
        d2 == f.den * f.den
    IN  IF x2 > r \div d2 THEN FALSE ELSE x2 * d2 < r

Truthy(x) == x # 0

----------------------------------------------------------------------------
(* Matrix primitives of utils.linalg *)

Rows(M) == Len(M)
Cols(M) == IF Len(M) = 0 THEN 0 ELSE Len(M[1])

Mats(r, c, S) == [1..r -> [1..c -> S]]

RECURSIVE SumTo(_, _)
SumTo(f, k) == IF k = 0 THEN 0 ELSE f[k] + SumTo(f, k - 1)

MSum(M) == SumTo([i \in 1..Rows(M) |-> SumTo(M[i], Len(M[i]))], Rows(M))

Tr(M) == [j \in 1..Cols(M) |-> [i \in 1..Rows(M) |-> M[i][j]]]

Conformable(A, B) == Cols(A) = Rows(B)

dot(A, B) ==
    [i \in 1..Rows(A) |-> [j \in 1..Cols(B) |->
        SumTo([k \in 1..Cols(A) |-> A[i][k] * B[k][j]], Cols(A))]]

msub(A, B) == [i \in 1..Rows(A) |-> [j \in 1..Cols(A) |-> A[i][j] - B[i][j]]]

multiply(A, B) == [i \in 1..Rows(A) |-> [j \in 1..Len(A[i]) |-> A[i][j] * B[i][j]]]

norm(X) == MSum(multiply(X, X))

vstack(A, B) == [i \in 1..(Rows(A) + Rows(B)) |->
                    IF i <= Rows(A) THEN A[i] ELSE B[i - Rows(A)]]

NonNeg(M) == \A i \in 1..Rows(M) : \A j \in 1..Len(M[i]) : M[i][j] >= 0

sop_ne0(x) == IF x # 0 THEN 1 ELSE 0

\* max(X, 0): the projection onto the nonnegative orthant
max0(X) == [i \in 1..Rows(X) |-> [j \in 1..Cols(X) |->
              IF X[i][j] > 0 THEN X[i][j] ELSE 0]]

\* H - a*g for the rational step a.  The entries stay on the integer grid; the
\* quotient is exact whenever a is an integer (a.den = 1).
StepFrom(Hc, a, g) ==
    [i \in 1..Rows(Hc) |-> [j \in 1..Cols(Hc) |->
        (Hc[i][j] * a.den - a.num * g[i][j]) \div a.den]]

----------------------------------------------------------------------------
(* Lsnmf.__extract *)

\* the test of lines 177 and 182
ActiveWeak(g, x) == g < 0 /\ x > 0
Active(g, x) == g < 0 \/ x > 0

RECURSIVE FlatTo(_, _)
FlatTo(M, k) == IF k = 0 THEN <<>> ELSE FlatTo(M, k - 1) \o M[k]
Flat(M) == FlatTo(M, Rows(M))

RECURSIVE Pick(_, _, _)
Pick(x, y, k) ==
    IF k = 0 THEN <<>>
    ELSE Pick(x, y, k - 1) \o (IF Active(x[k], y[k]) THEN <<x[k]>> ELSE <<>>)

\* line 182: boolean-mask indexing hands back the selected entries in row-major
\* order as one row, whatever the shape of X
extract_dense(X, Y) == << Pick(Flat(X), Flat(Y), Len(Flat(X))) >>

\* the entries the row loop of lines 173-176 (and 157-160) visits: those stored
\* in the compressed-row arrays indptr and indices, the nonzero ones
Stored(X, i, j) == X[i][j] # 0

\* lines 171-180: R starts as zeros of X's shape and receives the active stored
\* entries of X
extract_sparse(X, Y) ==
    [i \in 1..Rows(X) |-> [j \in 1..Cols(X) |->
        IF Stored(X, i, j) /\ Active(X[i][j], Y[i][j]) THEN X[i][j] ELSE 0]]

extract(X, Y, f) == IF f = "sparse" THEN extract_sparse(X, Y) ELSE extract_dense(X, Y)

----------------------------------------------------------------------------
(* Lsnmf.__alleq.  The result is "True", "False" or the exception raised. *)

\* what Python builds for the right-hand side of line 155: the conditional
\* expression binds tighter than the commas, so the tuple has three members
SwapTuple(X, Y, fx, fy) ==
    <<Y, IF fx # "sparse" /\ fy = "sparse" THEN X ELSE X, Y>>

\* lines 156-164 on the pair (A, B)
alleq_loop(A, B) ==
    IF \E i \in 1..Rows(A) : \E j \in 1..Cols(A) : Stored(A, i, j) /\ A[i][j] # B[i][j]
    THEN "False" ELSE "True"

alleq(X, Y, fx, fy) ==
    IF fx = "sparse" \/ fy = "sparse"
    THEN LET t == SwapTuple(X, Y, fx, fy)
         IN  IF Len(t) # 2 THEN "ValueError" ELSE alleq_loop(t[1], t[2])
    ELSE IF X = Y THEN "True" ELSE "False"

----------------------------------------------------------------------------
(* Lsnmf.objective and Lsnmf._is_satisfied *)

objective(gw, w, gh, h, f) == norm(vstack(extract(gw, w, f), extract(gh, h, f)))

_is_satisfied(c, it) ==
    IF Truthy(max_iter) /\ max_iter < it THEN FALSE
    ELSE IF it > 0 /\ NormLess(c, min_residuals, init_grad) THEN FALSE
    ELSE TRUE

----------------------------------------------------------------------------
(* Inputs *)

Shapes == {<<1, 1, 1>>, <<2, 1, 2>>, <<2, 2, 2>>}
Entries == 0..MaxEntry
Uniform(r, c, v) == [i \in 1..r |-> [j \in 1..c |-> v]]
InputV(m, n) == {Uniform(m, n, v) : v \in Entries}
\* what the seeder hands out: W with equal entries, H with equal entries but for
\* its top right one (for two rows and columns that includes matrices that are
\* not symmetric)
SeedW(m, r) == {Uniform(m, r, v) : v \in Entries}
SeedH(r, n) == {[Uniform(r, n, v) EXCEPT ![1][n] = u] : v \in Entries, u \in Entries}
RunCounts == {1, 2}
MinResidualsIn == {Rat(0, 1), Rat(1, 1), Rat(2, 1)}
TestConvIn == {0, 2}
Formats == {"dense", "sparse"}

\* no _subproblem call is running
NoSub == [which |-> "none", V |-> <<>>, W |-> <<>>, Hinit |-> <<>>, H |-> <<>>,
          epsH |-> Rat(0, 1), WtV |-> <<>>, WtW |-> <<>>, alpha |-> alpha0,
          iter |-> 0, grad |-> <<>>, n_iter |-> 0, Hn |-> <<>>, suff_decr |-> 0,
          decr_alpha |-> "unbound", Hp |-> <<>>,
          probes |-> 0, modeSetAt |-> -1, proposals |-> {}]

NoHlp == [st |-> "off", G |-> <<>>, X |-> <<>>, Y |-> <<>>, exD |-> <<>>, exS |-> <<>>,
          eqD |-> "", eqS |-> "", eqM |-> ""]

Init ==
    /\ shape \in Shapes
    /\ V \in InputV(shape[1], shape[3])
    /\ max_iter \in 0..MaxCap
    /\ n_run \in RunCounts
    /\ test_conv \in TestConvIn
    /\ fmt \in Formats
    /\ min_residuals \in MinResidualsIn   \* no callback, no tracking: the defaults
    /\ run = 0
    /\ W = <<>> /\ H = <<>> /\ gW = <<>> /\ gH = <<>>
    /\ init_grad = 0
    /\ epsW = Rat(0, 1) /\ epsH = Rat(0, 1)
    /\ cobj = 0 /\ iter = 0 /\ n_iter = 0 /\ final_obj = 0
    /\ pc = "factorize" /\ err = "none" /\ nUpdates = 0
    /\ sub = NoSub
    /\ hlp = NoHlp

----------------------------------------------------------------------------
(* Lsnmf.factorize *)

\* line 44, lines 79-80
SetParams ==
    /\ pc = "factorize"
    /\ min_residuals' = IF ~Truthy(min_residuals.num) THEN DefaultMinResiduals
                        ELSE min_residuals
    /\ pc' = "for_run"
    /\ UNCHANGED <<cfgVars, run, W, H, gW, gH, init_grad, epsW, epsH, cobj, iter,
                   n_iter, final_obj, err, nUpdates, sub, hlp>>

\* lines 46-47: the next trial starts from a seeded nonnegative pair
Seed ==
    /\ pc = "for_run" /\ run < n_run
    /\ W' \in SeedW(shape[1], shape[2])
    /\ H' \in SeedH(shape[2], shape[3])
    /\ nUpdates' = 0
    /\ pc' = "init"
    /\ UNCHANGED <<cfgVars, min_residuals, run, gW, gH, init_grad, epsW, epsH, cobj,
                   iter, n_iter, final_obj, err, sub, hlp>>

\* lines 48-54
InitGrad ==
    /\ pc = "init"
    /\ LET gw == msub(dot(W, dot(H, Tr(H))), dot(V, Tr(H)))
           gh == msub(dot(dot(Tr(W), W), H), dot(Tr(W), V))
       IN  /\ gW' = gw
           /\ gH' = gh
           /\ init_grad' = norm(vstack(gw, Tr(gh)))
           /\ epsW' = RatMax(TolFloor, min_residuals)
           /\ epsH' = RatMax(TolFloor, min_residuals)
           /\ cobj' = objective(gw, W, gh, H, fmt)
    /\ iter' = 0
    /\ pc' = "while"
    /\ UNCHANGED <<cfgVars, min_residuals, run, W, H, n_iter, final_obj, err,
                   nUpdates, sub, hlp>>

\* line 55, the predicate holds: the body runs.  iter < MaxOuter bounds the
\* exploration of a loop that nothing stops.
WhileEnter ==
    /\ pc = "while" /\ iter < MaxOuter
    /\ _is_satisfied(cobj, iter)
    /\ pc' = "update_W"
    /\ UNCHANGED <<cfgVars, min_residuals, run, W, H, gW, gH, init_grad, epsW, epsH,
                   cobj, iter, n_iter, final_obj, err, nUpdates, sub, hlp>>

\* line 55, the predicate fails: the trial ends (lines 59-64 hand the factors to
\* the callback and the tracker, which keep no state of this class)
WhileExit ==
    /\ pc = "while"
    /\ ~_is_satisfied(cobj, iter)
    /\ run' = run + 1
    /\ pc' = "for_run"
    /\ UNCHANGED <<cfgVars, min_residuals, W, H, gW, gH, init_grad, epsW, epsH,
                   cobj, iter, n_iter, final_obj, err, nUpdates, sub, hlp>>

\* the count that line 66 stores
ReportedIter(it) == it - 1

\* lines 66-69
Finish ==
    /\ pc = "for_run" /\ run = n_run
    /\ n_iter' = ReportedIter(iter)
    /\ final_obj' = cobj
    /\ pc' = "returned"
    /\ UNCHANGED <<cfgVars, min_residuals, run, W, H, gW, gH, init_grad, epsW, epsH,
                   cobj, iter, err, nUpdates, sub, hlp>>

----------------------------------------------------------------------------
(* Lsnmf._subproblem *)

\* lines 109-116 for the call _subproblem(cV, cW, Hin, eps, SubMaxIter): the
\* frame after them, or the exception of a product whose shapes do not agree
SubproblemEntry(which, cV, cW, Hin, eps) ==
    IF ~Conformable(Tr(cW), cV)
    THEN [pc |-> "raised", err |-> "ValueError: dot line 110", sub |-> NoSub]
    ELSE IF ~Conformable(Tr(cW), Tr(cW))
    THEN [pc |-> "raised", err |-> "ValueError: dot line 111", sub |-> NoSub]
    ELSE [pc |-> "for_iter", err |-> "none",
          sub |-> [NoSub EXCEPT !.which = which, !.V = cV, !.W = cW, !.Hinit = Hin,
                                !.H = Hin, !.epsH = eps,
                                !.WtV = dot(Tr(cW), cV),
                                !.WtW = dot(Tr(cW), Tr(cW)),
                                !.alpha = alpha0]]

\* line 85, the call
CallSubproblemW ==
    /\ pc = "update_W"
    /\ LET r == SubproblemEntry("W", Tr(V), Tr(H), Tr(W), epsW)
       IN  pc' = r.pc /\ err' = r.err /\ sub' = r.sub
    /\ UNCHANGED <<cfgVars, min_residuals, run, W, H, gW, gH, init_grad, epsW, epsH,
                   cobj, iter, n_iter, final_obj, nUpdates, hlp>>

\* line 89, the call
CallSubproblemH ==
    /\ pc = "update_H"
    /\ LET r == SubproblemEntry("H", V, W, H, epsH)
       IN  pc' = r.pc /\ err' = r.err /\ sub' = r.sub
    /\ UNCHANGED <<cfgVars, min_residuals, run, W, H, gW, gH, init_grad, epsW, epsH,
                   cobj, iter, n_iter, final_obj, nUpdates, hlp>>

\* lines 118-122: one pass of the head of the inner loop
InnerIter ==
    /\ pc = "for_iter"
    /\ LET g == msub(dot(sub.WtW, sub.H), sub.WtV)
           projgrad == norm(extract(g, sub.H, fmt))
       IN  IF NormLess(projgrad, sub.epsH, init_grad)
           THEN /\ sub' = [sub EXCEPT !.grad = g]
                /\ pc' = "return"
           ELSE /\ sub' = [sub EXCEPT !.grad = g, !.n_iter = 0,
                                      !.probes = 0, !.modeSetAt = -1]
                /\ pc' = "line_search"
    /\ UNCHANGED <<cfgVars, min_residuals, run, W, H, gW, gH, init_grad, epsW, epsH,
                   cobj, iter, n_iter, final_obj, err, nUpdates, hlp>>

\* the end of one pass of the loop of line 118: the next pass, or line 146
NextInner(f) ==
    IF f.iter + 1 < SubMaxIter
    THEN [pc |-> "for_iter", err |-> "none", sub |-> [f EXCEPT !.iter = @ + 1]]
    ELSE [pc |-> "return", err |-> "none", sub |-> f]

\* the end of one pass of the loop of line 124 that did not break
NextProbe(f) ==
    IF f.n_iter + 1 < LsTrials
    THEN [pc |-> "line_search", err |-> "none", sub |-> [f EXCEPT !.n_iter = @ + 1]]
    ELSE NextInner(f)

\* the probe at which line 130 sets the mode
ModeProbe == 1

\* lines 125-145: one probe of the line search.  suff_decr is carried times 100.
ProbeStep(f, fm) ==
    LET Hn == max0(StepFrom(f.H, f.alpha, f.grad))
        d == msub(Hn, f.H)
        gradd == MSum(multiply(f.grad, d))
        dQd == MSum(multiply(dot(f.WtW, d), d))
        suff_decr == 99 * gradd + 100 * sop_ne0(dQd)
        sets == (f.n_iter = ModeProbe)
        decr_alpha == IF sets THEN (IF ~Truthy(suff_decr) THEN "True" ELSE "False")
                      ELSE f.decr_alpha
        Hp == IF sets THEN f.H ELSE f.Hp
        g == [f EXCEPT !.Hn = Hn, !.suff_decr = suff_decr,
                       !.decr_alpha = decr_alpha, !.Hp = Hp,
                       !.probes = @ + 1,
                       !.modeSetAt = IF sets THEN f.n_iter ELSE @,
                       !.proposals = @ \cup {Hn}]
    IN  IF decr_alpha = "unbound"
        THEN [pc |-> "raised", err |-> "UnboundLocalError: decr_alpha line 133",
              sub |-> g]
        ELSE IF decr_alpha = "True"
        THEN IF Truthy(suff_decr)
             THEN NextInner([g EXCEPT !.H = Hn])
             ELSE NextProbe([g EXCEPT !.alpha = RatMul(@, beta)])
        ELSE IF ~Truthy(suff_decr)
        THEN NextInner([g EXCEPT !.H = Hp])
        ELSE LET eq == alleq(Hp, Hn, fm, fm)
             IN  IF eq = "ValueError"
                 THEN [pc |-> "raised", err |-> "ValueError: unpack line 155",
                       sub |-> g]
                 ELSE IF eq = "True"
                 THEN NextInner([g EXCEPT !.H = Hp])
                 ELSE NextProbe([g EXCEPT !.alpha = RatDiv(@, beta), !.Hp = Hn])

Probe ==
    /\ pc = "line_search"
    /\ LET r == ProbeStep(sub, fmt)
       IN  pc' = r.pc /\ err' = r.err /\ sub' = r.sub
    /\ UNCHANGED <<cfgVars, min_residuals, run, W, H, gW, gH, init_grad, epsW, epsH,
                   cobj, iter, n_iter, final_obj, nUpdates, hlp>>

\* line 146
SubproblemGradFirst(f) == <<f.grad, f.H, f.iter>>
SubproblemReturn(f) == <<f.H, f.grad, f.iter>>

----------------------------------------------------------------------------
(* Lsnmf.update *)

\* lines 88 and 90
Adjust(eps, it) == IF it = 1 THEN RatMul(Tighten, eps) ELSE eps

\* lines 85-88, after the call returned
ReturnW ==
    /\ pc = "return" /\ sub.which = "W"
    /\ LET r == SubproblemReturn(sub)
       IN  /\ W' = Tr(r[1])
           /\ gW' = Tr(r[2])
           /\ epsW' = Adjust(epsW, r[3])
    /\ sub' = NoSub
    /\ pc' = "update_H"
    /\ UNCHANGED <<cfgVars, min_residuals, run, H, gH, init_grad, epsH,
                   cobj, iter, n_iter, final_obj, err, nUpdates, hlp>>

\* lines 89-90, after the call returned: the update step is complete
ReturnH ==
    /\ pc = "return" /\ sub.which = "H"
    /\ LET r == SubproblemReturn(sub)
       IN  /\ H' = r[1]
           /\ gH' = r[2]
           /\ epsH' = Adjust(epsH, r[3])
    /\ sub' = NoSub
    /\ nUpdates' = nUpdates + 1
    /\ pc' = "objective"
    /\ UNCHANGED <<cfgVars, min_residuals, run, W, gW, init_grad, epsW,
                   cobj, iter, n_iter, final_obj, err, hlp>>

\* lines 57-58
Objective ==
    /\ pc = "objective"
    /\ cobj' = IF ~Truthy(test_conv) \/ iter % test_conv = 0
               THEN objective(gW, W, gH, H, fmt) ELSE cobj
    /\ iter' = iter + 1
    /\ pc' = "while"
    /\ UNCHANGED <<cfgVars, min_residuals, run, W, H, gW, gH, init_grad, epsW, epsH,
                   n_iter, final_obj, err, nUpdates, sub, hlp>>

Next ==
    \/ SetParams \/ Seed \/ InitGrad \/ WhileEnter \/ WhileExit \/ Finish
    \/ CallSubproblemW \/ CallSubproblemH \/ InnerIter \/ Probe
    \/ ReturnW \/ ReturnH \/ Objective

Spec == Init /\ [][Next]_vars

----------------------------------------------------------------------------
(* The helpers on their own: __extract and __alleq applied to drawn inputs *)

HelperShapes == {<<1, 1>>, <<1, 2>>, <<2, 1>>, <<2, 2>>}

InitHelpers ==
    /\ shape = <<1, 1, 1>>
    /\ V = <<>> /\ max_iter = 0 /\ n_run = 1 /\ test_conv = 0 /\ fmt = "dense"
    /\ min_residuals = Rat(0, 1)
    /\ run = 0
    /\ W = <<>> /\ H = <<>> /\ gW = <<>> /\ gH = <<>>
    /\ init_grad = 0
    /\ epsW = Rat(0, 1) /\ epsH = Rat(0, 1)
    /\ cobj = 0 /\ iter = 0 /\ n_iter = 0 /\ final_obj = 0
    /\ pc = "helpers" /\ err = "none" /\ nUpdates = 0
    /\ sub = NoSub
    /\ \E sh \in HelperShapes :
          \/ \E G \in Mats(sh[1], sh[2], (-MaxG)..MaxG) :
             \E X \in Mats(sh[1], sh[2], 0..MaxG) :
                hlp = [NoHlp EXCEPT !.st = "extract_in", !.G = G, !.X = X]
          \/ \E X \in Mats(sh[1], sh[2], 0..MaxG) :
             \E Y \in Mats(sh[1], sh[2], 0..MaxG) :
                hlp = [NoHlp EXCEPT !.st = "alleq_in", !.X = X, !.Y = Y]

\* lines 168-182 on (G, X), once for each representation of G
ApplyExtract ==
    /\ hlp.st = "extract_in"
    /\ hlp' = [hlp EXCEPT !.st = "extract_out",
                          !.exD = extract(hlp.G, hlp.X, "dense"),
                          !.exS = extract(hlp.G, hlp.X, "sparse")]
    /\ UNCHANGED <<cfgVars, drvVars, sub>>

\* lines 152-166 on (X, Y): both dense, both sparse, dense against sparse
ApplyAlleq ==
    /\ hlp.st = "alleq_in"
    /\ hlp' = [hlp EXCEPT !.st = "alleq_out",
                          !.eqD = alleq(hlp.X, hlp.Y, "dense", "dense"),
                          !.eqS = alleq(hlp.X, hlp.Y, "sparse", "sparse"),
                          !.eqM = alleq(hlp.X, hlp.Y, "dense", "sparse")]
    /\ UNCHANGED <<cfgVars, drvVars, sub>>

NextHelpers == ApplyExtract \/ ApplyAlleq

SpecHelpers == InitHelpers /\ [][NextHelpers]_vars

----------------------------------------------------------------------------
(* Properties *)

AllPos(M) == \A i \in 1..Rows(M) : \A j \in 1..Len(M[i]) : M[i][j] > 0
AllZero(M) == \A i \in 1..Rows(M) : \A j \in 1..Len(M[i]) : M[i][j] = 0
NonPos(M) == \A i \in 1..Rows(M) : \A j \in 1..Len(M[i]) : M[i][j] <= 0
IsNeg(x) == x < 0

C2_AtMostK ==
    max_iter >= 1 => nUpdates <= max_iter

\* C3 as claimed: with max_iter = 0 the cap counts as set: the stopping predicate
\* ends the loop at iter = 1 whatever the objective is, and the trial performs
\* no more than one update step.
C3_ZeroCap ==
    max_iter = 0 =>
       /\ nUpdates <= 1
       /\ (pc = "while" /\ iter >= 1) => ~_is_satisfied(cobj, iter)

\* C4 as claimed: no path through a solver call raises: the program never is in
\* the state of an exception raised inside _subproblem.
C4_NoError ==
    pc # "raised"

\* C5 as claimed: when factorize has returned, n_iter is the number of update
\* steps the last trial executed.
C5_ReportedCount ==
    pc = "returned" => n_iter = nUpdates

\* C6 as claimed: the dense and the sparse branch of the helpers agree: the norm
\* of extract(G, X) is the same on both, and the elementwise-equality test gives
\* the same answer on the dense branch, the sparse branch and the mixed one.
C6_BranchesAgree ==
    /\ hlp.st = "extract_out" => norm(hlp.exD) = norm(hlp.exS)
    /\ hlp.st = "alleq_out" => hlp.eqD = hlp.eqS /\ hlp.eqD = hlp.eqM

\* C7 as claimed, read in the claim's favour (the entries returned, whatever the
\* shape they come in): (1) with no negative entry in G and every entry of X
\* positive, extract returns the entries of G; (2) with every entry of G <= 0 and
\* every entry of X zero, extract returns only zeros.
C7_AsClaimed ==
    hlp.st = "extract_out" =>
       /\ (NonNeg(hlp.G) /\ AllPos(hlp.X)) =>
             Flat(hlp.exD) = Flat(hlp.G) /\ Flat(hlp.exS) = Flat(hlp.G)
       /\ (NonPos(hlp.G) /\ AllZero(hlp.X)) =>
             AllZero(hlp.exD) /\ AllZero(hlp.exS)

\* C7 amended: (1) with no negative entry in G and every entry of X positive,
\* every entry is active: the sparse branch returns a matrix equal to G and the
\* dense branch the entries of G in row-major order as one row; (2) with every
\* entry of G <= 0 and every entry of X zero, exactly the negative entries of G
\* are active: the sparse branch returns a matrix equal to G and the dense
\* branch the negative entries of G in row-major order as one row, so the
\* result is zero only if G is zero.
C7_Extraction ==
    hlp.st = "extract_out" =>
       /\ (NonNeg(hlp.G) /\ AllPos(hlp.X)) =>
             hlp.exS = hlp.G /\ hlp.exD = <<Flat(hlp.G)>>
       /\ (NonPos(hlp.G) /\ AllZero(hlp.X)) =>
             /\ hlp.exS = hlp.G
             /\ hlp.exD = <<SelectSeq(Flat(hlp.G), IsNeg)>>
             /\ AllZero(hlp.exS) <=> AllZero(hlp.G)

\* C7 witness: extract has run on a nonpositive G with two rows and two columns
\* that has a negative entry, against an all-zero X.
C7_Witness ==
    /\ hlp.st = "extract_out"
    /\ Rows(hlp.G) = 2 /\ Cols(hlp.G) = 2
    /\ NonPos(hlp.G) /\ ~AllZero(hlp.G) /\ AllZero(hlp.X)
    /\ hlp.exS = hlp.G

\* C8 as claimed: the gradient a solver call tests against eps, searches along
\* and returns is (Basis^T * Basis) * H - Basis^T * Const for the call's
\* arguments Const and Basis.
C8_Gradient ==
    (pc \in {"line_search", "return"} /\ sub.iter = 0) =>
       sub.grad = msub(dot(dot(Tr(sub.W), sub.W), sub.H), dot(Tr(sub.W), sub.V))

\* C9 as claimed: once a probe of a line search has run, the mode and Hp of that
\* line search have been set by its first probe (the probe with n_iter = 0).
C9_ModeOnFirstProbe ==
    sub.probes >= 1 => sub.modeSetAt = 0

\* C10 as claimed, for the first probe of a call's first line search: when the
\* decrease is sufficient and the proposal differs from H, the search is in GROW
\* mode, so that probe divides alpha by beta and the search goes on (no
\* exception ends it).
C10_GrowDivides ==
    (sub.iter = 0 /\ sub.probes = 1 /\ Truthy(sub.suff_decr) /\ sub.Hn # sub.Hinit) =>
       /\ pc # "raised"
       /\ RatEq(sub.alpha, RatDiv(alpha0, beta))

====
